---- MODULE Spec2Model ----
(***************************************************************************)
(* Model of the REST handlers of appfolio-mock:                            *)
(*   GET  /api/workorder              (list, optional ?phone= filter)      *)
(*   POST /api/workorder              (validated create)                   *)
(*   GET  /api/workorder/$workOrderId (lookup by id)                       *)
(*   GET  /api/tenant                 (list, or lookup by ?phone=)         *)
(*   GET  /api/tenant/$tenantId       (lookup by id)                       *)
(*   GET  /api/verify-identity        (does ?phone= belong to a tenant)    *)
(* over the module-level arrays `workOrders` (in memory, growing) and      *)
(* `TENANTS` (static).                                                     *)
(*                                                                         *)
(* Representation.                                                         *)
(*  - A JSON value is a tagged record [t |-> type, v |-> payload]; a JSON  *)
(*    object's payload is a function from its keys to JSON values.         *)
(*  - A stored WorkOrder is a TLA+ record of strings; tenantUnitNumber is  *)
(*    simply not in the record's domain when the property is absent.       *)
(*  - An ISO-8601 timestamp string "YYYY-MM-DDTHH:MM:SS.mmmZ" is the       *)
(*    record of its seven numeric fields.  Date.getTime() is a number of   *)
(*    milliseconds that does not fit TLC's 32-bit integers, so an instant  *)
(*    is kept as [sec, ms] (whole epoch seconds, milliseconds within the   *)
(*    second) and the comparator's result is reduced to its sign, which is *)
(*    all Array.prototype.sort looks at.                                   *)
(***************************************************************************)
EXTENDS Integers, Sequences, FiniteSets, TLC

VARIABLES workOrders, tenants, uuids, req, resp

vars == <<workOrders, tenants, uuids, req, resp>>

(***************************************************************************)
(* Bounds of the model.                                                    *)
(***************************************************************************)
\* Number of work orders created on top of the seed records.
MaxCreated == 2
\* Number of distinct values crypto.randomUUID() can return in the model: one
\* for each record that can be created.
NumUUIDs == MaxCreated

(***************************************************************************)
(* Dates: new Date(s).getTime() and new Date().toISOString().              *)
(***************************************************************************)
Iso(y, mo, d, h, mi, s, ms) ==
    [Y |-> y, M |-> mo, D |-> d, h |-> h, m |-> mi, s |-> s, ms |-> ms]

\* Days since 1970-01-01 of a proleptic Gregorian calendar date.
DaysFromCivil(y0, m, d) ==
    LET y   == IF m <= 2 THEN y0 - 1 ELSE y0
        era == y \div 400
        yoe == y - era * 400
        mp  == IF m > 2 THEN m - 3 ELSE m + 9
        doy == (153 * mp + 2) \div 5 + d - 1
        doe == yoe * 365 + yoe \div 4 - yoe \div 100 + doy
    IN  era * 146097 + doe - 719468

\* Calendar date of a number of days since 1970-01-01.
CivilFromDays(z0) ==
    LET z   == z0 + 719468
        era == z \div 146097
        doe == z - era * 146097
        yoe == (doe - doe \div 1460 + doe \div 36524 - doe \div 146096) \div 365
        doy == doe - (365 * yoe + yoe \div 4 - yoe \div 100)
        mp  == (5 * doy + 2) \div 153
        d   == doy - (153 * mp + 2) \div 5 + 1
        m   == IF mp < 10 THEN mp + 3 ELSE mp - 9
        y   == yoe + era * 400 + (IF m <= 2 THEN 1 ELSE 0)
    IN  [Y |-> y, M |-> m, D |-> d]

\* new Date(isoString).getTime(), as [sec, ms].
DateGetTime(iso) ==
    [sec |-> DaysFromCivil(iso.Y, iso.M, iso.D) * 86400
             + iso.h * 3600 + iso.m * 60 + iso.s,
     ms  |-> iso.ms]

\* new Date(instant).toISOString().
ToISOString(t) ==
    LET days == t.sec \div 86400
        rem  == t.sec % 86400
        c    == CivilFromDays(days)
    IN  Iso(c.Y, c.M, c.D, rem \div 3600, (rem % 3600) \div 60, rem % 60, t.ms)

\* Values the system clock returns to `new Date()` in the model: an instant
\* before some seed records, the instant of the newest seed record, and two
\* instants after every seed record, one in the same second as the newest
\* one and one in the next second.
ClockReadings ==
    { [sec |-> 1739145600, ms |-> 0],
      [sec |-> 1740645900, ms |-> 0],
      [sec |-> 1740645900, ms |-> 250],
      [sec |-> 1740645901, ms |-> 0] }

(***************************************************************************)
(* The seed collection (data/workOrders.ts).                               *)
(***************************************************************************)
SeedWorkOrders ==
    << [id |-> "wo-00000001-0000-4000-a000-000000000001",
        tenantName |-> "Alice Johnson", tenantAddress |-> "100 Oak Street",
        tenantPhone |-> "4155551001", tenantUnitNumber |-> "1A",
        description |-> "Leaky faucet in kitchen sink - dripping constantly.",
        progress |-> "completed", createdAt |-> Iso(2025, 1, 5, 8, 0, 0, 0)],
       [id |-> "wo-00000002-0000-4000-a000-000000000002",
        tenantName |-> "Brian Martinez", tenantAddress |-> "200 Maple Avenue",
        tenantPhone |-> "4155551002",
        description |-> "Heater not working - unit is cold.",
        progress |-> "completed", createdAt |-> Iso(2025, 1, 12, 9, 30, 0, 0)],
       [id |-> "wo-00000003-0000-4000-a000-000000000003",
        tenantName |-> "Carol Williams", tenantAddress |-> "300 Pine Road",
        tenantPhone |-> "4155551003", tenantUnitNumber |-> "2B",
        description |-> "Bathroom ceiling has water stain and possible leak from upstairs.",
        progress |-> "completed", createdAt |-> Iso(2025, 1, 20, 11, 0, 0, 0)],
       [id |-> "wo-00000004-0000-4000-a000-000000000004",
        tenantName |-> "David Brown", tenantAddress |-> "400 Elm Drive",
        tenantPhone |-> "4155551004",
        description |-> "Front door lock is sticking - key very difficult to turn.",
        progress |-> "in-progress", createdAt |-> Iso(2025, 2, 1, 14, 0, 0, 0)],
       [id |-> "wo-00000005-0000-4000-a000-000000000005",
        tenantName |-> "Emily Davis", tenantAddress |-> "500 Cedar Lane",
        tenantPhone |-> "4155551005", tenantUnitNumber |-> "3C",
        description |-> "Garbage disposal stopped working - makes no sound when switched on.",
        progress |-> "in-progress", createdAt |-> Iso(2025, 2, 8, 10, 15, 0, 0)],
       [id |-> "wo-00000006-0000-4000-a000-000000000006",
        tenantName |-> "Frank Garcia", tenantAddress |-> "600 Birch Boulevard",
        tenantPhone |-> "4155551006",
        description |-> "Bedroom window won't close all the way - gap lets in cold air.",
        progress |-> "in-progress", createdAt |-> Iso(2025, 2, 14, 13, 45, 0, 0)],
       [id |-> "wo-00000007-0000-4000-a000-000000000007",
        tenantName |-> "Grace Wilson", tenantAddress |-> "700 Walnut Court",
        tenantPhone |-> "4155551007", tenantUnitNumber |-> "4D",
        description |-> "Dishwasher leaving standing water at end of cycle.",
        progress |-> "new", createdAt |-> Iso(2025, 2, 20, 9, 0, 0, 0)],
       [id |-> "wo-00000008-0000-4000-a000-000000000008",
        tenantName |-> "Henry Taylor", tenantAddress |-> "800 Chestnut Place",
        tenantPhone |-> "4155551008",
        description |-> "Smoke detector chirping intermittently - battery replacement needed.",
        progress |-> "new", createdAt |-> Iso(2025, 2, 22, 16, 30, 0, 0)],
       [id |-> "wo-00000009-0000-4000-a000-000000000009",
        tenantName |-> "Irene Anderson", tenantAddress |-> "900 Spruce Way",
        tenantPhone |-> "4155551009", tenantUnitNumber |-> "5E",
        description |-> "Mold spotted in bathroom grout along shower walls.",
        progress |-> "new", createdAt |-> Iso(2025, 2, 25, 11, 20, 0, 0)],
       [id |-> "wo-00000010-0000-4000-a000-000000000010",
        tenantName |-> "James Thomas", tenantAddress |-> "1000 Willow Street",
        tenantPhone |-> "4155551010",
        description |-> "AC unit making loud rattling noise when running.",
        progress |-> "new", createdAt |-> Iso(2025, 2, 27, 8, 45, 0, 0)] >>

(***************************************************************************)
(* JSON values.                                                            *)
(***************************************************************************)
JStr(s) == [t |-> "string", v |-> s]
JNum(n) == [t |-> "number", v |-> n]
JNull   == [t |-> "null"]
JArr(a) == [t |-> "array", v |-> a]
JObj(f) == [t |-> "object", v |-> f]

\* Object spread { ...a, ...b }: the keys of both, b's value where both have one.
Spread(a, b) ==
    [k \in DOMAIN a \cup DOMAIN b |-> IF k \in DOMAIN b THEN b[k] ELSE a[k]]

\* The object without key k.
Without(f, k) == [x \in DOMAIN f \ {k} |-> f[x]]

(***************************************************************************)
(* Validation: CreateWorkOrderSchema.safeParse(body).                      *)
(***************************************************************************)
\* Variant: description declared z.string(), without min(1).
CreateWorkOrderSchema_EmptyDescription ==
    << [key |-> "tenantName",       optional |-> FALSE, min |-> 1],
       [key |-> "tenantAddress",    optional |-> FALSE, min |-> 1],
       [key |-> "tenantPhone",      optional |-> FALSE, min |-> 1],
       [key |-> "tenantUnitNumber", optional |-> TRUE,  min |-> 0],
       [key |-> "description",      optional |-> FALSE, min |-> 0] >>

\* z.object({...}): the fields in declaration order; z.string().min(1) is
\* [optional |-> FALSE, min |-> 1], z.string().optional() has no minimum.
CreateWorkOrderSchema ==
    << [key |-> "tenantName",       optional |-> FALSE, min |-> 1],
       [key |-> "tenantAddress",    optional |-> FALSE, min |-> 1],
       [key |-> "tenantPhone",      optional |-> FALSE, min |-> 1],
       [key |-> "tenantUnitNumber", optional |-> TRUE,  min |-> 0],
       [key |-> "description",      optional |-> FALSE, min |-> 1] >>

SchemaKeys(schema) == { schema[i].key : i \in DOMAIN schema }

\* Variant: the minimum length is not enforced.
FieldIssues_NoMinimum(field, obj) ==
    IF field.key \notin DOMAIN obj
    THEN IF field.optional THEN <<>>
         ELSE << [code |-> "invalid_type", expected |-> "string",
                  path |-> <<field.key>>] >>
    ELSE IF obj[field.key].t # "string"
         THEN << [code |-> "invalid_type", expected |-> "string",
                  path |-> <<field.key>>] >>
         ELSE <<>>

\* The issues one string field of the schema raises on object `obj`.
FieldIssues(field, obj) ==
    IF field.key \notin DOMAIN obj
    THEN IF field.optional THEN <<>>
         ELSE << [code |-> "invalid_type", expected |-> "string",
                  path |-> <<field.key>>] >>
    ELSE IF obj[field.key].t # "string"
         THEN << [code |-> "invalid_type", expected |-> "string",
                  path |-> <<field.key>>] >>
         ELSE IF Len(obj[field.key].v) < field.min
              THEN << [code |-> "too_small", minimum |-> field.min,
                       path |-> <<field.key>>] >>
              ELSE <<>>

RECURSIVE ObjectIssues(_, _, _)
\* The issues of fields i.. of the schema, in declaration order.
ObjectIssues(schema, obj, i) ==
    IF i > Len(schema) THEN <<>>
    ELSE FieldIssues(schema[i], obj) \o ObjectIssues(schema, obj, i + 1)

\* schema.safeParse(value): a non-object is one invalid_type issue at the
\* root; unknown keys are stripped from the parsed data.
\* Variant: the schema is a z.looseObject, which keeps keys it does not
\* declare.
SafeParse_KeepsUnknownKeys(schema, value) ==
    IF value.t # "object"
    THEN [success |-> FALSE,
          issues  |-> << [code |-> "invalid_type", expected |-> "object",
                          path |-> <<>>] >>]
    ELSE LET issues == ObjectIssues(schema, value.v, 1)
         IN  IF Len(issues) > 0
             THEN [success |-> FALSE, issues |-> issues]
             ELSE [success |-> TRUE,
                   data |-> [k \in DOMAIN value.v |-> value.v[k].v]]

SafeParse(schema, value) ==
    IF value.t # "object"
    THEN [success |-> FALSE,
          issues  |-> << [code |-> "invalid_type", expected |-> "object",
                          path |-> <<>>] >>]
    ELSE LET issues == ObjectIssues(schema, value.v, 1)
         IN  IF Len(issues) > 0
             THEN [success |-> FALSE, issues |-> issues]
             ELSE [success |-> TRUE,
                   data |-> [k \in SchemaKeys(schema) \cap DOMAIN value.v
                               |-> value.v[k].v]]

\* Variant: a body that is not JSON text is read as null instead of throwing.
RequestJson_NeverThrows(body) ==
    [threw |-> FALSE,
     value |-> IF body.t = "unparsable" THEN JNull ELSE body]

\* Variant: JSON text that is not an object is refused like text that is not
\* JSON.
RequestJson_ObjectsOnly(body) ==
    IF body.t # "object" THEN [threw |-> TRUE]
    ELSE [threw |-> FALSE, value |-> body]

\* await request.json(): throws on a body that is not JSON text.
RequestJson(body) ==
    IF body.t = "unparsable" THEN [threw |-> TRUE]
    ELSE [threw |-> FALSE, value |-> body]

(***************************************************************************)
(* Sorting: [...list].sort((a, b) => getTime(b) - getTime(a)).             *)
(***************************************************************************)
Sign(n) == IF n > 0 THEN 1 ELSE IF n < 0 THEN -1 ELSE 0

\* Sign of x - y for two instants.
InstantDiffSign(x, y) ==
    IF x.sec # y.sec THEN Sign(x.sec - y.sec) ELSE Sign(x.ms - y.ms)

\* Variant: the operands of the subtraction swapped (oldest first).
CompareCreatedAt_Ascending(a, b) ==
    InstantDiffSign(DateGetTime(a.createdAt), DateGetTime(b.createdAt))

\* The comparator of the list handler: positive when a sorts after b.
CompareCreatedAt(a, b) ==
    InstantDiffSign(DateGetTime(b.createdAt), DateGetTime(a.createdAt))

\* Variant: x goes in front of the elements it ties with, as in a sort that
\* is not stable.
SortedInsert_BeforeTies(sorted, x) ==
    LET keep == { j \in 1..Len(sorted) : CompareCreatedAt(sorted[j], x) < 0 }
        k    == IF keep = {} THEN 0
                ELSE CHOOSE j \in keep : \A i \in keep : i <= j
    IN  SubSeq(sorted, 1, k) \o <<x>> \o SubSeq(sorted, k + 1, Len(sorted))

\* x inserted into an already sorted list behind every element that does not
\* sort after it.
SortedInsert(sorted, x) ==
    LET keep == { j \in 1..Len(sorted) : CompareCreatedAt(sorted[j], x) <= 0 }
        k    == IF keep = {} THEN 0
                ELSE CHOOSE j \in keep : \A i \in keep : i <= j
    IN  SubSeq(sorted, 1, k) \o <<x>> \o SubSeq(sorted, k + 1, Len(sorted))

RECURSIVE ArraySort(_)
\* Array.prototype.sort with the comparator above: a stable sort.
ArraySort(list) ==
    IF Len(list) = 0 THEN <<>>
    ELSE SortedInsert(ArraySort(SubSeq(list, 1, Len(list) - 1)),
                      list[Len(list)])

\* Variant: `=` written for `===`, so the callback is truthy for every record
\* once phone is a non-empty string.
FilterByPhone_Assigns(list, phone) ==
    SelectSeq(list, LAMBDA wo : Len(phone) > 0)

\* Array.prototype.filter(wo => wo.tenantPhone === phone).
FilterByPhone(list, phone) ==
    SelectSeq(list, LAMBDA wo : wo.tenantPhone = phone)

\* Array.prototype.find(w => w.id === id): the first match, else undefined.
Undefined == [t |-> "undefined"]
\* Variant: falls back to the first element when nothing matches.
FindById_FirstOnMiss(list, id) ==
    LET hits == { i \in 1..Len(list) : list[i].id = id }
    IN  IF hits = {} THEN list[1]
        ELSE list[CHOOSE i \in hits : \A j \in hits : i <= j]

FindById(list, id) ==
    LET hits == { i \in 1..Len(list) : list[i].id = id }
    IN  IF hits = {} THEN Undefined
        ELSE list[CHOOSE i \in hits : \A j \in hits : i <= j]

\* Variant: the parameter is tested with `!== null`, so an empty string
\* counts as given.
Truthy_NotNull(param) == param.t = "string"

\* JavaScript truthiness of the result of url.searchParams.get(name).
Truthy(param) == param.t = "string" /\ Len(param.v) > 0

(***************************************************************************)
(* The tenant directory.  data/tenants.ts holds a static array of tenants  *)
(* {id, name, phone, address, unitNumber?}: ids are UUIDs, unique per      *)
(* tenant, and phones are digit strings.  The records below follow that    *)
(* layout; the names, phones and addresses are those the seed work orders  *)
(* carry.                                                                  *)
(***************************************************************************)
TENANTS ==
    << [id |-> "0b0e7a1c-5f0d-4a6e-9c1a-7d2f00000001",
        name |-> "Alice Johnson", phone |-> "4155551001",
        address |-> "100 Oak Street", unitNumber |-> "1A"],
       [id |-> "3c9d2f4e-8a17-4b52-b0c3-7d2f00000002",
        name |-> "Brian Martinez", phone |-> "4155551002",
        address |-> "200 Maple Avenue"],
       [id |-> "7e41c6a0-2b39-4f8d-8e6f-7d2f00000003",
        name |-> "Carol Williams", phone |-> "4155551003",
        address |-> "300 Pine Road", unitNumber |-> "2B"],
       [id |-> "d2a85b93-6c4e-4d71-a5b8-7d2f00000010",
        name |-> "James Thomas", phone |-> "4155551010",
        address |-> "1000 Willow Street"] >>

\* TENANTS.find(t => t.phone === phone): the first match, else undefined.
FindTenantByPhone(list, phone) ==
    LET hits == { i \in 1..Len(list) : list[i].phone = phone }
    IN  IF hits = {} THEN Undefined
        ELSE list[CHOOSE i \in hits : \A j \in hits : i <= j]

\* Variant: compares with a parameter the route does not have, so nothing
\* ever matches.
FindTenantById_NeverMatches(list, id) == Undefined

\* TENANTS.find(t => t.id === params.tenantId).
FindTenantById(list, id) ==
    LET hits == { i \in 1..Len(list) : list[i].id = id }
    IN  IF hits = {} THEN Undefined
        ELSE list[CHOOSE i \in hits : \A j \in hits : i <= j]

\* Response.json({ error: 'Tenant not found' }, { status: 404 })
TenantNotFound == [status |-> 404, body |-> [error |-> "Tenant not found"]]

\* Variant: the miss is answered without { status: 404 }, so with the
\* default status.
GetTenants_NotFoundIs200(list, phone) ==
    IF Truthy(phone)
    THEN LET tenant == FindTenantByPhone(list, phone.v)
         IN  IF tenant = Undefined
             THEN [status |-> 200, body |-> [error |-> "Tenant not found"]]
             ELSE [status |-> 200, body |-> tenant]
    ELSE [status |-> 200, body |-> list]

\* Variant: the unfiltered list is cut to a first page of two tenants.
GetTenants_FirstPage(list, phone) ==
    IF Truthy(phone)
    THEN LET tenant == FindTenantByPhone(list, phone.v)
         IN  IF tenant = Undefined THEN TenantNotFound
             ELSE [status |-> 200, body |-> tenant]
    ELSE [status |-> 200, body |-> SubSeq(list, 1, 2)]

\* GET /api/tenant
GetTenants(list, phone) ==
    IF Truthy(phone)
    THEN LET tenant == FindTenantByPhone(list, phone.v)
         IN  IF tenant = Undefined THEN TenantNotFound
             ELSE [status |-> 200, body |-> tenant]
    ELSE [status |-> 200, body |-> list]

\* GET /api/tenant/$tenantId
GetTenant(list, tenantId) ==
    LET tenant == FindTenantById(list, tenantId)
    IN  IF tenant = Undefined THEN TenantNotFound
        ELSE [status |-> 200, body |-> tenant]

\* Variant: the verified answer names the tenant it found.
VerifyIdentity_NamesTenant(list, phone) ==
    IF Truthy(phone)
    THEN LET tenant == FindTenantByPhone(list, phone.v)
         IN  IF tenant = Undefined THEN TenantNotFound
             ELSE [status |-> 200,
                   body |-> [result |-> "verified", name |-> tenant.name]]
    ELSE [status |-> 200, body |-> [error |-> "Missing phone number"]]

\* GET /api/verify-identity
VerifyIdentity(list, phone) ==
    IF Truthy(phone)
    THEN LET tenant == FindTenantByPhone(list, phone.v)
         IN  IF tenant = Undefined THEN TenantNotFound
             ELSE [status |-> 200, body |-> [result |-> "verified"]]
    ELSE [status |-> 200, body |-> [error |-> "Missing phone number"]]

(***************************************************************************)
(* The tenants page (components/tenants-page.tsx): filterTenants over the  *)
(* fetched tenant list.  Strings are TLA+ strings; a character is a string *)
(* of length one.                                                          *)
(***************************************************************************)
\* Longest search text the model types into the search box.
MaxSearchLen == 3

UpperCase == << "A", "B", "C", "D", "E", "F", "G", "H", "I", "J", "K", "L", "M",
                "N", "O", "P", "Q", "R", "S", "T", "U", "V", "W", "X", "Y", "Z" >>
LowerCase == << "a", "b", "c", "d", "e", "f", "g", "h", "i", "j", "k", "l", "m",
                "n", "o", "p", "q", "r", "s", "t", "u", "v", "w", "x", "y", "z" >>

\* Characters String.prototype.trim() removes, as far as they can be typed.
WhiteSpace == {" ", "\t", "\n"}

CharAt(s, i) == SubSeq(s, i, i)

\* String.prototype.toLowerCase()
RECURSIVE ToLowerCase(_)
ToLowerCase(s) ==
    IF Len(s) = 0 THEN ""
    ELSE LET c == CharAt(s, 1)
             lower == IF \E i \in DOMAIN UpperCase : UpperCase[i] = c
                      THEN LowerCase[CHOOSE i \in DOMAIN UpperCase :
                                         UpperCase[i] = c]
                      ELSE c
         IN  lower \o ToLowerCase(SubSeq(s, 2, Len(s)))

\* String.prototype.trim()
Trim(s) ==
    LET black == { i \in 1..Len(s) : CharAt(s, i) \notin WhiteSpace }
    IN  IF black = {} THEN ""
        ELSE SubSeq(s, CHOOSE i \in black : \A j \in black : i <= j,
                       CHOOSE i \in black : \A j \in black : i >= j)

\* String.prototype.includes(q)
Includes(s, q) ==
    \E i \in 0..(Len(s) - Len(q)) : SubSeq(s, i + 1, i + Len(q)) = q

\* Variant: the name is compared without toLowerCase().
filterTenants_NameCaseSensitive(list, search) ==
    LET q == ToLowerCase(Trim(search))
    IN  IF Len(q) = 0 THEN list
        ELSE SelectSeq(list, LAMBDA t :
                 \/ Includes(t.name, q)
                 \/ Includes(t.phone, Trim(search)))

\* filterTenants(tenants, search)
filterTenants(list, search) ==
    LET q == ToLowerCase(Trim(search))
    IN  IF Len(q) = 0 THEN list
        ELSE SelectSeq(list, LAMBDA t :
                 \/ Includes(ToLowerCase(t.name), q)
                 \/ Includes(t.phone, Trim(search)))

(***************************************************************************)
(* The handlers, as functions of the store and the request.                *)
(***************************************************************************)
\* Variant: the list is served from a copy of the collection taken at start.
ListWorkOrders_CachedAtStart(store, phone) ==
    LET list == IF Truthy(phone) THEN FilterByPhone(SeedWorkOrders, phone.v)
                ELSE SeedWorkOrders
    IN  [status |-> 200, body |-> ArraySort(list)]

\* GET /api/workorder
ListWorkOrders(store, phone) ==
    LET list == IF Truthy(phone) THEN FilterByPhone(store, phone.v) ELSE store
    IN  [status |-> 200, body |-> ArraySort(list)]

\* GET /api/workorder/$workOrderId
GetWorkOrder(store, workOrderId) ==
    LET workOrder == FindById(store, workOrderId)
    IN  IF workOrder = Undefined
        THEN [status |-> 404, body |-> [error |-> "Work order not found"]]
        ELSE [status |-> 200, body |-> workOrder]

\* Variant: the initial progress written as a value outside WorkOrderProgress.
NewWorkOrder_Pending(data, uuid, now) ==
    Spread(Spread([id |-> uuid], data),
           [progress |-> "pending", createdAt |-> ToISOString(now)])

\* { id: crypto.randomUUID(), ...result.data, progress: 'new', createdAt: ... }
NewWorkOrder(data, uuid, now) ==
    Spread(Spread([id |-> uuid], data),
           [progress |-> "new", createdAt |-> ToISOString(now)])

\* Response.json(body, { status: 400 })
BadRequest(body) == [status |-> 400, body |-> body]

\* Variant: a progress string in the payload is written over the default.
PostWorkOrder_PayloadProgress(store, body, uuid, now) ==
    LET parsed == RequestJson(body)
    IN  IF parsed.threw
        THEN [response   |-> BadRequest([error |-> "Invalid JSON body"]),
              workOrders |-> store]
        ELSE LET result == SafeParse(CreateWorkOrderSchema, parsed.value)
             IN  IF ~result.success
                 THEN [response   |-> BadRequest([error  |-> "Validation failed",
                                                  issues |-> result.issues]),
                       workOrders |-> store]
                 ELSE LET payload == parsed.value.v
                          newWorkOrder ==
                              IF "progress" \in DOMAIN payload
                                 /\ payload["progress"].t = "string"
                              THEN Spread(NewWorkOrder(result.data, uuid, now),
                                          [progress |-> payload["progress"].v])
                              ELSE NewWorkOrder(result.data, uuid, now)
                      IN  [response   |-> [status |-> 201, body |-> newWorkOrder],
                           workOrders |-> Append(store, newWorkOrder)]

\* Variant: an input equal to the input of a stored record returns that record
\* and appends nothing.
PostWorkOrder_Deduplicates(store, body, uuid, now) ==
    LET parsed == RequestJson(body)
    IN  IF parsed.threw
        THEN [response   |-> BadRequest([error |-> "Invalid JSON body"]),
              workOrders |-> store]
        ELSE LET result == SafeParse(CreateWorkOrderSchema, parsed.value)
             IN  IF ~result.success
                 THEN [response   |-> BadRequest([error  |-> "Validation failed",
                                                  issues |-> result.issues]),
                       workOrders |-> store]
                 ELSE LET same == { i \in 1..Len(store) :
                                      [k \in DOMAIN store[i]
                                             \ {"id", "progress", "createdAt"}
                                         |-> store[i][k]] = result.data }
                          newWorkOrder == NewWorkOrder(result.data, uuid, now)
                      IN  IF same # {}
                          THEN [response   |-> [status |-> 201,
                                                body |-> store[CHOOSE i \in same : TRUE]],
                                workOrders |-> store]
                          ELSE [response   |-> [status |-> 201, body |-> newWorkOrder],
                                workOrders |-> Append(store, newWorkOrder)]

\* Variant: a request for a phone that already has a work order is turned
\* away before validation.
PostWorkOrder_DuplicateCheckFirst(store, body, uuid, now) ==
    LET parsed == RequestJson(body)
    IN  IF parsed.threw
        THEN [response   |-> BadRequest([error |-> "Invalid JSON body"]),
              workOrders |-> store]
        ELSE IF /\ parsed.value.t = "object"
                /\ "tenantPhone" \in DOMAIN parsed.value.v
                /\ parsed.value.v["tenantPhone"].t = "string"
                /\ \E i \in 1..Len(store) :
                       store[i].tenantPhone = parsed.value.v["tenantPhone"].v
        THEN [response   |-> [status |-> 409,
                              body |-> [error |-> "Work order already open"]],
              workOrders |-> store]
        ELSE LET result == SafeParse(CreateWorkOrderSchema, parsed.value)
             IN  IF ~result.success
                 THEN [response   |-> BadRequest([error  |-> "Validation failed",
                                                  issues |-> result.issues]),
                       workOrders |-> store]
                 ELSE LET newWorkOrder == NewWorkOrder(result.data, uuid, now)
                      IN  [response   |-> [status |-> 201, body |-> newWorkOrder],
                           workOrders |-> Append(store, newWorkOrder)]

\* Variant: the tenant directory is consulted and a phone without a tenant is
\* turned away.
PostWorkOrder_RequiresTenant(store, body, uuid, now) ==
    LET parsed == RequestJson(body)
    IN  IF parsed.threw
        THEN [response   |-> BadRequest([error |-> "Invalid JSON body"]),
              workOrders |-> store]
        ELSE LET result == SafeParse(CreateWorkOrderSchema, parsed.value)
             IN  IF ~result.success
                 THEN [response   |-> BadRequest([error  |-> "Validation failed",
                                                  issues |-> result.issues]),
                       workOrders |-> store]
                 ELSE IF FindTenantByPhone(TENANTS, result.data["tenantPhone"])
                           = Undefined
                 THEN [response   |-> TenantNotFound, workOrders |-> store]
                 ELSE LET newWorkOrder == NewWorkOrder(result.data, uuid, now)
                      IN  [response   |-> [status |-> 201, body |-> newWorkOrder],
                           workOrders |-> Append(store, newWorkOrder)]

\* Variant: the new record is put in front (unshift) instead of at the end.
PostWorkOrder_Unshift(store, body, uuid, now) ==
    LET parsed == RequestJson(body)
    IN  IF parsed.threw
        THEN [response   |-> BadRequest([error |-> "Invalid JSON body"]),
              workOrders |-> store]
        ELSE LET result == SafeParse(CreateWorkOrderSchema, parsed.value)
             IN  IF ~result.success
                 THEN [response   |-> BadRequest([error  |-> "Validation failed",
                                                  issues |-> result.issues]),
                       workOrders |-> store]
                 ELSE LET newWorkOrder == NewWorkOrder(result.data, uuid, now)
                      IN  [response   |-> [status |-> 201, body |-> newWorkOrder],
                           workOrders |-> <<newWorkOrder>> \o store]

\* POST /api/workorder: the response and the store it leaves behind.
PostWorkOrder(store, body, uuid, now) ==
    LET parsed == RequestJson(body)
    IN  IF parsed.threw
        THEN [response   |-> BadRequest([error |-> "Invalid JSON body"]),
              workOrders |-> store]
        ELSE LET result == SafeParse(CreateWorkOrderSchema, parsed.value)
             IN  IF ~result.success
                 THEN [response   |-> BadRequest([error  |-> "Validation failed",
                                                  issues |-> result.issues]),
                       workOrders |-> store]
                 ELSE LET newWorkOrder == NewWorkOrder(result.data, uuid, now)
                      IN  [response   |-> [status |-> 201, body |-> newWorkOrder],
                           workOrders |-> Append(store, newWorkOrder)]

\* crypto.randomUUID(): a version-4 UUID it has not returned before.
UUIDPool ==
    << "1b4e28ba-2fa1-4d3b-a3f5-000000000001",
       "6fa459ea-ee8a-4ca4-894e-000000000002",
       "9c858901-8a57-4791-81fe-000000000003",
       "e902893a-9d22-4c7e-a7b8-000000000004",
       "f47ac10b-58cc-4372-a567-000000000005" >>
\* Variant: a generator that can return a value it returned before.
RandomUUID_Repeating(issued) == { UUIDPool[i] : i \in 1..NumUUIDs }
RandomUUID(issued) == { UUIDPool[i] : i \in 1..NumUUIDs } \ issued

(***************************************************************************)
(* Requests the model sends.                                               *)
(***************************************************************************)
\* The README's example body: every required field, no tenantUnitNumber.
JaneDoe ==
    [tenantName    |-> JStr("Jane Doe"),
     tenantAddress |-> JStr("123 Main St"),
     tenantPhone   |-> JStr("555-1234"),
     description   |-> JStr("Leak under sink")]

\* A second request of the seed tenant Alice, with a unit number and a
\* progress the client tries to set.
AliceAgain ==
    [tenantName       |-> JStr("Alice Johnson"),
     tenantAddress    |-> JStr("100 Oak Street"),
     tenantPhone      |-> JStr("4155551001"),
     tenantUnitNumber |-> JStr("1A"),
     description      |-> JStr("Faucet is leaking again"),
     progress         |-> JStr("in-progress")]

\* Bodies that satisfy the schema; three of them carry keys the schema does
\* not declare (progress, id, createdAt).
AcceptableBodies ==
    { JObj(JaneDoe),
      JObj(AliceAgain),
      JObj(Spread(JaneDoe,
                  [progress  |-> JStr("completed"),
                   id        |-> JStr("wo-00000001-0000-4000-a000-000000000001"),
                   createdAt |-> JStr("1999-12-31T23:59:59.999Z")])),
      JObj(Spread(JaneDoe, [progress |-> JStr("cancelled")])) }

RequiredKeys == {"tenantName", "tenantAddress", "tenantPhone", "description"}

\* JaneDoe with one field made wrong: missing, empty, a number or null.
FaultyBodies ==
    { JObj(Without(JaneDoe, k)) : k \in RequiredKeys }
    \cup { JObj(Spread(JaneDoe, [x \in {k} |-> bad])) :
             k \in RequiredKeys, bad \in {JStr(""), JNum(42), JNull} }
    \cup { JObj(Spread(JaneDoe, [tenantUnitNumber |-> bad])) :
             bad \in {JNum(42), JNull} }
    \cup { JObj(Spread(Without(JaneDoe, "tenantName"),
                       [description |-> JStr("")])),
           JObj(Without(AliceAgain, "description")),
           JObj([progress |-> JStr("completed")]) }

\* JSON that is not an object, and a body that is not JSON.
NonObjectBodies == { JNull, JNum(42), JStr("Leak under sink"), JArr(<<>>) }
Unparsable == [t |-> "unparsable"]

PostBodies ==
    AcceptableBodies \cup FaultyBodies \cup NonObjectBodies \cup {Unparsable}

\* url.searchParams.get('phone'): null when the parameter is absent.
PhoneParams ==
    { JNull, JStr(""), JStr("4155551001"), JStr("555-1234"),
      JStr("0000000000"), JStr("415555100") }

\* params.workOrderId
WorkOrderIds ==
    { "wo-00000001-0000-4000-a000-000000000001",
      "wo-00000010-0000-4000-a000-000000000010",
      "nonexistent-id" }
    \cup { UUIDPool[i] : i \in 1..NumUUIDs }

\* params.tenantId
TenantIds ==
    { TENANTS[i].id : i \in DOMAIN TENANTS }
    \cup { "nonexistent-id", "wo-00000001-0000-4000-a000-000000000001" }

(***************************************************************************)
(* State machine.  The runtime is a single-threaded event loop: it runs the *)
(* synchronous part of one handler at a time, from the end of the handler's *)
(* last await to its return.  req and resp hold the request being answered  *)
(* and its response until the response has been sent.                       *)
(***************************************************************************)
NoRequest == [method |-> "NONE"]
NoResponse == [status |-> 0]

Init ==
    /\ workOrders = SeedWorkOrders
    /\ tenants = TENANTS
    /\ uuids = {}
    /\ req = NoRequest
    /\ resp = NoResponse

\* Variant: the handler sorts the shared array itself instead of a copy.
WorkOrdersGET_SortsInPlace ==
    \E phone \in PhoneParams :
        /\ req = NoRequest
        /\ req' = [method |-> "GET", path |-> "/api/workorder", phone |-> phone]
        /\ resp' = ListWorkOrders(workOrders, phone)
        /\ workOrders' = ArraySort(workOrders)
        /\ UNCHANGED <<tenants, uuids>>

\* GET /api/workorder
WorkOrdersGET ==
    \E phone \in PhoneParams :
        /\ req = NoRequest
        /\ req' = [method |-> "GET", path |-> "/api/workorder", phone |-> phone]
        /\ resp' = ListWorkOrders(workOrders, phone)
        /\ UNCHANGED <<workOrders, tenants, uuids>>

\* The handler reaches crypto.randomUUID() and new Date() only when the body
\* parsed and passed validation; before that it draws neither.
ReachesCreate(store, body) ==
    PostWorkOrder(store, body, UUIDPool[1],
                  CHOOSE t \in ClockReadings : TRUE).response.status = 201

\* POST /api/workorder
WorkOrdersPOST ==
    \E body \in PostBodies :
        /\ req = NoRequest
        /\ \E uuid \in (IF ReachesCreate(workOrders, body)
                     THEN RandomUUID(uuids) ELSE {UUIDPool[1]}),
           now \in (IF ReachesCreate(workOrders, body)
                    THEN ClockReadings ELSE {CHOOSE t \in ClockReadings : TRUE}) :
              LET out == PostWorkOrder(workOrders, body, uuid, now)
              IN  /\ out.response.status = 201
                      => Len(workOrders) < Len(SeedWorkOrders) + MaxCreated
                  /\ req' = [method |-> "POST", path |-> "/api/workorder",
                             body |-> body]
                  /\ resp' = out.response
                  /\ workOrders' = out.workOrders
                  /\ tenants' = tenants
                  /\ uuids' = IF out.response.status = 201
                              THEN uuids \cup {uuid} ELSE uuids

\* Variant: looking a new work order up moves it to "in-progress".
WorkOrderGET_MarksViewed ==
    \E workOrderId \in WorkOrderIds :
        /\ req = NoRequest
        /\ req' = [method |-> "GET", path |-> "/api/workorder/$workOrderId",
                   workOrderId |-> workOrderId]
        /\ resp' = GetWorkOrder(workOrders, workOrderId)
        /\ workOrders' =
               [i \in DOMAIN workOrders |->
                   IF workOrders[i].id = workOrderId
                      /\ workOrders[i].progress = "new"
                   THEN [workOrders[i] EXCEPT !.progress = "in-progress"]
                   ELSE workOrders[i]]
        /\ UNCHANGED <<tenants, uuids>>

\* GET /api/workorder/$workOrderId
WorkOrderGET ==
    \E workOrderId \in WorkOrderIds :
        /\ req = NoRequest
        /\ req' = [method |-> "GET", path |-> "/api/workorder/$workOrderId",
                   workOrderId |-> workOrderId]
        /\ resp' = GetWorkOrder(workOrders, workOrderId)
        /\ UNCHANGED <<workOrders, tenants, uuids>>

\* Variant: the unfiltered list is answered with TENANTS.reverse(), which
\* reverses the shared array.
TenantsGET_ReversesInPlace ==
    \E phone \in PhoneParams :
        /\ req = NoRequest
        /\ req' = [method |-> "GET", path |-> "/api/tenant", phone |-> phone]
        /\ resp' = GetTenants(tenants, phone)
        /\ tenants' = IF Truthy(phone) THEN tenants
                      ELSE [i \in DOMAIN tenants |->
                               tenants[Len(tenants) + 1 - i]]
        /\ UNCHANGED <<workOrders, uuids>>

\* GET /api/tenant
TenantsGET ==
    \E phone \in PhoneParams :
        /\ req = NoRequest
        /\ req' = [method |-> "GET", path |-> "/api/tenant", phone |-> phone]
        /\ resp' = GetTenants(tenants, phone)
        /\ UNCHANGED <<workOrders, tenants, uuids>>

\* GET /api/tenant/$tenantId
TenantGET ==
    \E tenantId \in TenantIds :
        /\ req = NoRequest
        /\ req' = [method |-> "GET", path |-> "/api/tenant/$tenantId",
                   tenantId |-> tenantId]
        /\ resp' = GetTenant(tenants, tenantId)
        /\ UNCHANGED <<workOrders, tenants, uuids>>

\* GET /api/verify-identity
VerifyIdentityGET ==
    \E phone \in PhoneParams :
        /\ req = NoRequest
        /\ req' = [method |-> "GET", path |-> "/api/verify-identity",
                   phone |-> phone]
        /\ resp' = VerifyIdentity(tenants, phone)
        /\ UNCHANGED <<workOrders, tenants, uuids>>

\* The handler has returned its Response: the request is over.
ResponseSent ==
    /\ req # NoRequest
    /\ req' = NoRequest
    /\ resp' = NoResponse
    /\ UNCHANGED <<workOrders, tenants, uuids>>

Next ==
    \/ WorkOrdersGET \/ WorkOrdersPOST \/ WorkOrderGET
    \/ TenantsGET \/ TenantGET \/ VerifyIdentityGET
    \/ ResponseSent

Spec == Init /\ [][Next]_vars

(***************************************************************************)
(* The same handlers under a system clock that never goes backwards and is *)
(* later than every seed timestamp.  new Date() is called by the create    *)
(* handler only, so the readings taken so far are the createdAt of the     *)
(* created records.                                                        *)
(***************************************************************************)
\* The reading a create has just taken, new Date() of line 78, is later than
\* every seed timestamp and not earlier than any reading taken before it.
ClockNeverBack ==
    (req'.method = "POST" /\ resp'.status = 201)
    => LET now == DateGetTime(resp'.body.createdAt)
       IN  /\ \A i \in DOMAIN SeedWorkOrders :
                 InstantDiffSign(now,
                                 DateGetTime(SeedWorkOrders[i].createdAt)) > 0
           /\ \A i \in DOMAIN workOrders :
                 InstantDiffSign(now, DateGetTime(workOrders[i].createdAt)) >= 0

MonotoneClockSpec == Init /\ [][Next /\ ClockNeverBack]_vars

(***************************************************************************)
(* Creates in flight together.  The POST handler is an async function with *)
(* two awaits (the simulated delay of line 57, request.json() of line 61); *)
(* between awaits it runs without interruption, and other handlers run     *)
(* while it is suspended.  Here req is the array of the create requests    *)
(* that have arrived, each with the await it is suspended at ("delay",     *)
(* "json") or "done", and resp the array of their responses.               *)
(***************************************************************************)
\* Create requests that may be in flight together.
MaxInFlight == 3

\* Two bodies that are accepted and one that is turned away.
RaceBodies ==
    { JObj(JaneDoe), JObj(AliceAgain), JObj(Without(JaneDoe, "description")) }

\* The requests are in flight together, so their handlers read the clock
\* within a short time: the readings after every seed record.
RaceClock ==
    { t \in ClockReadings :
        \A i \in DOMAIN SeedWorkOrders :
           InstantDiffSign(t, DateGetTime(SeedWorkOrders[i].createdAt)) > 0 }

RaceInit ==
    /\ workOrders = SeedWorkOrders
    /\ tenants = TENANTS
    /\ uuids = {}
    /\ req = <<>>
    /\ resp = <<>>

\* A POST arrives; its handler starts and suspends at the delay (line 57).
PostArrives ==
    \E body \in RaceBodies :
        /\ Len(req) < MaxInFlight
        /\ req' = Append(req, [method |-> "POST", path |-> "/api/workorder",
                               body |-> body, pc |-> "delay"])
        /\ resp' = Append(resp, NoResponse)
        /\ UNCHANGED <<workOrders, tenants, uuids>>

\* The timer of line 57 fires; the handler suspends at request.json().
PostDelayElapsed ==
    \E i \in DOMAIN req :
        /\ req[i].pc = "delay"
        /\ req' = [req EXCEPT ![i].pc = "json"]
        /\ UNCHANGED <<workOrders, tenants, uuids, resp>>

\* Variant: the handler writes workOrders[n] = newWorkOrder with a length n
\* it read before an await, so n may be any length the array had by then.
PostBodyRead_StaleLength ==
    \E i \in DOMAIN req :
        /\ req[i].pc = "json"
        /\ \E uuid \in (IF ReachesCreate(workOrders, req[i].body)
                        THEN RandomUUID(uuids) ELSE {UUIDPool[1]}),
              now \in (IF ReachesCreate(workOrders, req[i].body)
                       THEN RaceClock
                       ELSE {CHOOSE t \in RaceClock : TRUE}),
              n \in Len(SeedWorkOrders)..Len(workOrders) :
              LET out == PostWorkOrder(workOrders, req[i].body, uuid, now)
              IN  /\ out.response.status = 201
                      => Len(workOrders) < Len(SeedWorkOrders) + MaxCreated
                  /\ out.response.status # 201 => n = Len(workOrders)
                  /\ req' = [req EXCEPT ![i].pc = "done"]
                  /\ resp' = [resp EXCEPT ![i] = out.response]
                  /\ workOrders' =
                        IF out.response.status # 201 THEN workOrders
                        ELSE IF n = Len(workOrders) THEN out.workOrders
                        ELSE [workOrders EXCEPT ![n + 1] = out.response.body]
                  /\ tenants' = tenants
                  /\ uuids' = IF out.response.status = 201
                              THEN uuids \cup {uuid} ELSE uuids

\* request.json() settles; lines 61-82 run to the return without
\* interruption.
PostBodyRead ==
    \E i \in DOMAIN req :
        /\ req[i].pc = "json"
        /\ \E uuid \in (IF ReachesCreate(workOrders, req[i].body)
                        THEN RandomUUID(uuids) ELSE {UUIDPool[1]}),
              now \in (IF ReachesCreate(workOrders, req[i].body)
                       THEN RaceClock
                       ELSE {CHOOSE t \in RaceClock : TRUE}) :
              LET out == PostWorkOrder(workOrders, req[i].body, uuid, now)
              IN  /\ out.response.status = 201
                      => Len(workOrders) < Len(SeedWorkOrders) + MaxCreated
                  /\ req' = [req EXCEPT ![i].pc = "done"]
                  /\ resp' = [resp EXCEPT ![i] = out.response]
                  /\ workOrders' = out.workOrders
                  /\ tenants' = tenants
                  /\ uuids' = IF out.response.status = 201
                              THEN uuids \cup {uuid} ELSE uuids

CreateRaceNext == PostArrives \/ PostDelayElapsed \/ PostBodyRead

CreateRaceSpec == RaceInit /\ [][CreateRaceNext]_vars

(***************************************************************************)
(* The tenants page: the text of the search box, debounced, filters the    *)
(* list fetched from GET /api/tenant.                                      *)
(***************************************************************************)
SearchChars == {"a", "A", "1", "0", " "}

RECURSIVE SearchesOfLen(_)
SearchesOfLen(n) ==
    IF n = 0 THEN {""}
    ELSE { s \o c : s \in SearchesOfLen(n - 1), c \in SearchChars }

Searches == UNION { SearchesOfLen(n) : n \in 0..MaxSearchLen }

\* useMemo(() => filterTenants(data, debouncedSearch))
TenantsPageSearch ==
    \E search \in Searches :
        /\ req = NoRequest
        /\ req' = [method |-> "RENDER", path |-> "/tenants", search |-> search]
        /\ resp' = [status |-> 200,
                    body |-> filterTenants(GetTenants(tenants, JNull).body,
                                           search)]
        /\ UNCHANGED <<workOrders, tenants, uuids>>

\* The page alone: it renders, and the render is over.
TenantsPageNext == TenantsPageSearch \/ ResponseSent

TenantsPageSpec == Init /\ [][TenantsPageNext]_vars

(***************************************************************************)
(* Vocabulary of the properties, written from the contract and not from    *)
(* the handlers' code.                                                     *)
(***************************************************************************)
IsCreate  == req.method = "POST" /\ req.path = "/api/workorder"
IsList    == req.method = "GET" /\ req.path = "/api/workorder"
IsGetById == req.method = "GET" /\ req.path = "/api/workorder/$workOrderId"

\* A non-empty string under key k.
NonEmptyString(obj, k) ==
    k \in DOMAIN obj /\ obj[k].t = "string" /\ obj[k].v # ""

\* Key k of the object breaks its rule of the validation table.
Offending(obj, k) ==
    IF k = "tenantUnitNumber"
    THEN k \in DOMAIN obj /\ obj[k].t # "string"
    ELSE ~NonEmptyString(obj, k)

ContractKeys == RequiredKeys \cup {"tenantUnitNumber"}

\* The body parses and satisfies every rule of the validation table.
MeetsCreateContract(body) ==
    /\ body.t = "object"
    /\ \A k \in ContractKeys : ~Offending(body.v, k)

\* The body parses but breaks the validation table.
ParsesButInvalid(body) ==
    body.t # "unparsable" /\ ~MeetsCreateContract(body)

\* The input fields a stored record carries.
InputOf(wo) == [k \in DOMAIN wo \cap ContractKeys |-> wo[k]]
\* The input fields an accepted body carries.
InputOfBody(body) == [k \in DOMAIN body.v \cap ContractKeys |-> body.v[k].v]

Ids(list) == { list[i].id : i \in DOMAIN list }

\* How often record r occurs in a list.
Occurrences(list, r) == Cardinality({ i \in DOMAIN list : list[i] = r })

\* Chronological order of two timestamps, read off the ISO fields directly.
IsoFields(c) == <<c.Y, c.M, c.D, c.h, c.m, c.s, c.ms>>
IsoBefore(c, d) ==
    \E i \in 1..7 : /\ IsoFields(c)[i] < IsoFields(d)[i]
                    /\ \A j \in 1..(i - 1) : IsoFields(c)[j] = IsoFields(d)[j]

\* createdAt never increases along the list.
NewestFirst(list) ==
    \A i \in 1..(Len(list) - 1) :
        ~IsoBefore(list[i].createdAt, list[i + 1].createdAt)

(***************************************************************************)
(* Properties.                                                             *)
(***************************************************************************)
\* C1: a POST /api/workorder whose body has non-empty string tenantName,
\* tenantAddress, tenantPhone and description (tenantUnitNumber absent or a
\* string) is answered 201 with a record whose progress is "new" and whose id
\* is the id of no record already in the collection, and the collection is
\* exactly one record longer afterwards.
C1_CreateAccepted ==
    [][ (req'.method = "POST" /\ MeetsCreateContract(req'.body))
        => /\ resp'.status = 201
           /\ resp'.body.progress = "new"
           /\ resp'.body.id \notin Ids(workOrders)
           /\ Len(workOrders') = Len(workOrders) + 1 ]_vars

\* A create was accepted on a collection that already holds a created record.
C1_Witness ==
    /\ IsCreate /\ MeetsCreateContract(req.body)
    /\ resp.status = 201
    /\ Len(workOrders) = Len(SeedWorkOrders) + 2

\* C2: a POST /api/workorder whose body parses but breaks the schema is
\* answered 400 {error: "Validation failed", issues}; for an object body the
\* issues name exactly the offending fields, for any other JSON value the
\* issue is at the root; the collection is the same before and after.
C2_CreateRejected ==
    [][ (req'.method = "POST" /\ ParsesButInvalid(req'.body))
        => /\ resp'.status = 400
           /\ DOMAIN resp'.body = {"error", "issues"}
           /\ resp'.body.error = "Validation failed"
           /\ Len(resp'.body.issues) > 0
           /\ { resp'.body.issues[i].path : i \in DOMAIN resp'.body.issues }
                = IF req'.body.t = "object"
                  THEN { <<k>> : k \in { x \in ContractKeys :
                                           Offending(req'.body.v, x) } }
                  ELSE { <<>> }
           /\ workOrders' = workOrders ]_vars

\* A body without description was rejected, with an issue at description, on a
\* collection that holds created records.
C2_Witness ==
    /\ IsCreate
    /\ req.body = JObj(Without(JaneDoe, "description"))
    /\ resp.status = 400
    /\ \E i \in DOMAIN resp.body.issues :
           resp.body.issues[i].path = <<"description">>
    /\ Len(workOrders) > Len(SeedWorkOrders)

\* C3: a POST /api/workorder whose body cannot be parsed is answered exactly
\* 400 {error: "Invalid JSON body"} and leaves the collection unchanged; that
\* answer is given to unparsable bodies only, and "Validation failed" to
\* parseable bodies only, so no request gets both.
C3_MalformedDistinct ==
    [][ req'.method = "POST"
        => /\ (req'.body = Unparsable)
                 => /\ resp' = [status |-> 400,
                                body |-> [error |-> "Invalid JSON body"]]
                    /\ workOrders' = workOrders
           /\ (resp'.status = 400 /\ resp'.body.error = "Invalid JSON body")
                 => req'.body = Unparsable
           /\ (resp'.status = 400 /\ resp'.body.error = "Validation failed")
                 => req'.body # Unparsable ]_vars

\* An unparsable body was answered on a collection that holds created records.
C3_Witness ==
    /\ IsCreate
    /\ req.body = Unparsable
    /\ resp.status = 400
    /\ Len(workOrders) > Len(SeedWorkOrders)

\* C4: progress is never taken from the create payload: when an accepted
\* body carries a progress key, whatever its value, the returned record and
\* the record stored under the returned id both have progress "new".
C4_ProgressServerAssigned ==
    (IsCreate /\ MeetsCreateContract(req.body) /\ "progress" \in DOMAIN req.body.v)
    => /\ resp.status = 201
       /\ resp.body.progress = "new"
       /\ \E i \in DOMAIN workOrders : workOrders[i].id = resp.body.id
       /\ \A i \in DOMAIN workOrders :
              workOrders[i].id = resp.body.id => workOrders[i].progress = "new"

\* A body asking for progress "completed" was accepted.
C4_Witness ==
    /\ IsCreate /\ resp.status = 201
    /\ "progress" \in DOMAIN req.body.v
    /\ req.body.v["progress"] = JStr("completed")
    /\ workOrders[Len(workOrders)].progress = "new"

\* C5: GET /api/workorder without a phone parameter answers 200 with a list
\* as long as the collection, holding every stored record exactly as often as
\* the collection does, with createdAt never increasing from first to last.
C5_ListAllNewestFirst ==
    (IsList /\ req.phone = JNull)
    => /\ resp.status = 200
       /\ Len(resp.body) = Len(workOrders)
       /\ \A i \in DOMAIN workOrders :
              Occurrences(resp.body, workOrders[i])
                = Occurrences(workOrders, workOrders[i])
       /\ \A i \in DOMAIN workOrders : Occurrences(workOrders, workOrders[i]) = 1
       /\ NewestFirst(resp.body)

\* The whole collection was listed when it held a record created with a
\* timestamp older than a seed record's, so that insertion order is not
\* chronological order.
C5_Witness ==
    /\ IsList /\ req.phone = JNull
    /\ Len(resp.body) = Len(SeedWorkOrders) + 2
    /\ \E i \in DOMAIN workOrders :
          /\ i > Len(SeedWorkOrders)
          /\ IsoBefore(workOrders[i].createdAt,
                       workOrders[Len(SeedWorkOrders)].createdAt)

\* The records of a list with tenantPhone p, in the list's order.
WithPhone(list, p) == SelectSeq(list, LAMBDA wo : wo.tenantPhone = p)
Range(list) == { list[i] : i \in DOMAIN list }

\* What C6 says of the list answered for phone parameter p.
FilteredListContract(p) ==
    /\ resp.status = 200
    /\ \A i \in DOMAIN resp.body :
           resp.body[i].tenantPhone = p /\ resp.body[i] \in Range(workOrders)
    /\ \A i \in DOMAIN workOrders :
           workOrders[i].tenantPhone = p
           => Occurrences(resp.body, workOrders[i])
                = Occurrences(workOrders, workOrders[i])
    /\ NewestFirst(resp.body)
    /\ Range(resp.body) \subseteq Range(ListWorkOrders(workOrders, JNull).body)
    /\ Range(resp.body) # Range(ListWorkOrders(workOrders, JNull).body)
    /\ (\A i \in DOMAIN workOrders : workOrders[i].tenantPhone # p)
           => resp.body = <<>>

\* C6 as stated: for every phone p, GET /api/workorder?phone=p answers 200
\* with a strict subset of the unfiltered list holding exactly the records
\* with tenantPhone = p, newest first, and the empty list when none matches.
C6_Original ==
    (IsList /\ req.phone.t = "string") => FilteredListContract(req.phone.v)

\* C6 as amended: the same for every non-empty phone p.
C6_FilterByPhone ==
    (IsList /\ req.phone.t = "string" /\ req.phone.v # "")
    => FilteredListContract(req.phone.v)

\* The list for a phone shared by a seed record and a created record.
C6_Witness ==
    /\ IsList /\ req.phone = JStr("4155551001")
    /\ Len(resp.body) >= 2

\* C7: GET /api/workorder/<id> answers 200 with the stored record whose id is
\* <id> when the collection has one, and 404 {error: "Work order not found"}
\* when it has none; it never answers a record with another id.
C7_GetById ==
    IsGetById
    => IF req.workOrderId \in Ids(workOrders)
       THEN /\ resp.status = 200
            /\ resp.body.id = req.workOrderId
            /\ resp.body \in Range(workOrders)
       ELSE resp = [status |-> 404, body |-> [error |-> "Work order not found"]]

\* A created record was fetched by the id its create returned.
C7_Witness ==
    /\ IsGetById /\ resp.status = 200
    /\ req.workOrderId \notin Ids(SeedWorkOrders)
    /\ resp.body.id = req.workOrderId

\* C8: create is not idempotent in its effect: a create whose input equals
\* the input of a record created earlier is answered 201 with a record that
\* is none of the stored ones and has a new id, every earlier record stays in
\* place, and the collection grows by one more record.
C8_CreateNotIdempotent ==
    [][ (/\ req'.method = "POST"
         /\ MeetsCreateContract(req'.body)
         /\ \E i \in DOMAIN workOrders :
               /\ i > Len(SeedWorkOrders)
               /\ InputOf(workOrders[i]) = InputOfBody(req'.body))
        => /\ resp'.status = 201
           /\ Len(workOrders') = Len(workOrders) + 1
           /\ SubSeq(workOrders', 1, Len(workOrders)) = workOrders
           /\ workOrders'[Len(workOrders')] = resp'.body
           /\ InputOf(resp'.body) = InputOfBody(req'.body)
           /\ \A i \in DOMAIN workOrders :
                 /\ workOrders[i] # resp'.body
                 /\ workOrders[i].id # resp'.body.id ]_vars

\* Two creates with the same input left two records with different ids, and
\* the collection is two records longer than the seed.
C8_Witness ==
    /\ IsCreate /\ resp.status = 201
    /\ Len(workOrders) = Len(SeedWorkOrders) + 2
    /\ InputOf(workOrders[Len(workOrders)])
         = InputOf(workOrders[Len(workOrders) - 1])
    /\ workOrders[Len(workOrders)].id # workOrders[Len(workOrders) - 1].id

\* C9: validation does not depend on the store: a create whose body is
\* unparsable or breaks the schema gets, in every reachable state, the
\* response the same body gets on the seed collection.
C9_ValidationDeterministic ==
    (IsCreate /\ ~MeetsCreateContract(req.body))
    => /\ resp.status = 400
       /\ resp = PostWorkOrder(SeedWorkOrders, req.body, UUIDPool[1],
                               CHOOSE t \in ClockReadings : TRUE).response

\* A body that breaks the schema was answered after two creates, one of them
\* for the phone the body carries.
C9_Witness ==
    /\ IsCreate /\ resp.status = 400
    /\ req.body.t = "object"
    /\ NonEmptyString(req.body.v, "tenantPhone")
    /\ Len(workOrders) = Len(SeedWorkOrders) + 2
    /\ \E i \in DOMAIN workOrders :
           /\ i > Len(SeedWorkOrders)
           /\ workOrders[i].tenantPhone = req.body.v["tenantPhone"].v

\* C10: every record of the collection has non-empty tenantName,
\* tenantAddress, tenantPhone and description.
C10_RequiredFieldsNonEmpty ==
    \A i \in DOMAIN workOrders :
        \A k \in RequiredKeys :
            k \in DOMAIN workOrders[i] /\ workOrders[i][k] # ""

\* A body with an empty description was answered while the collection holds
\* created records.
C10_Witness ==
    /\ IsCreate
    /\ req.body = JObj(Spread(JaneDoe, [description |-> JStr("")]))
    /\ Len(workOrders) > Len(SeedWorkOrders)

\* The three values of WorkOrderProgress.
ProgressValues == {"new", "in-progress", "completed"}

\* C11: the progress of every record of the collection is one of "new",
\* "in-progress" and "completed".
C11_ProgressEnumerated ==
    \A i \in DOMAIN workOrders : workOrders[i].progress \in ProgressValues

\* A body asking for a progress outside the enumeration was accepted, and the
\* collection holds records of all three progress values.
C11_Witness ==
    /\ IsCreate /\ resp.status = 201
    /\ "progress" \in DOMAIN req.body.v
    /\ req.body.v["progress"] = JStr("cancelled")
    /\ { workOrders[i].progress : i \in DOMAIN workOrders } = ProgressValues

\* C12: the ids of the records of the collection are pairwise distinct, seed
\* ids and generated ids alike, for a generator that never returns a value it
\* returned before.
C12_IdsDistinct ==
    \A i, j \in DOMAIN workOrders :
        workOrders[i].id = workOrders[j].id => i = j

\* The collection holds the seed records and two created records.
C12_Witness ==
    /\ Len(workOrders) = Len(SeedWorkOrders) + 2
    /\ Cardinality(Ids(workOrders) \ Ids(SeedWorkOrders)) = 2

\* C13: the collection starts with exactly 10 records and is append-only:
\* a step makes it one record longer when it is a create answered 201 and
\* leaves its length alone otherwise (so the size is always 10 plus the number
\* of creates answered 201 and never decreases), and the collection before a
\* step is a prefix, in the same order, of the collection after it.
C13_AppendOnly ==
    /\ Len(workOrders) = 10
    /\ [][ /\ Len(workOrders')
                = Len(workOrders)
                  + (IF req'.method = "POST" /\ resp'.status = 201
                     THEN 1 ELSE 0)
           /\ SubSeq(workOrders', 1, Len(workOrders)) = workOrders ]_vars

\* After two creates answered 201 the ten seed records are still the first
\* ten, and reads have been served in between.
C13_Witness ==
    /\ Len(workOrders) = 12
    /\ SubSeq(workOrders, 1, 10) = SeedWorkOrders
    /\ IsList

\* Position of a progress value along new -> in-progress -> completed.
ProgressRank(p) ==
    CASE p = "new" -> 1 [] p = "in-progress" -> 2 [] p = "completed" -> 3

\* C14: no operation changes a stored work order: after every step each
\* record of the collection is still there under its id with the same id,
\* tenant fields, description, progress and createdAt, no other record
\* carries its id, and its progress has not moved backwards.
C14_RecordsImmutable ==
    [][ \A i \in DOMAIN workOrders :
          /\ \E j \in DOMAIN workOrders' : workOrders'[j] = workOrders[i]
          /\ \A j \in DOMAIN workOrders' :
                workOrders'[j].id = workOrders[i].id
                => /\ workOrders'[j] = workOrders[i]
                   /\ ProgressRank(workOrders'[j].progress)
                        >= ProgressRank(workOrders[i].progress) ]_vars

\* A record created earlier was looked up by id after a later create: it still
\* has progress "new", and the seed records still show all three values.
C14_Witness ==
    /\ IsGetById /\ resp.status = 200
    /\ Len(workOrders) = Len(SeedWorkOrders) + 2
    /\ resp.body = workOrders[Len(SeedWorkOrders) + 1]
    /\ resp.body.progress = "new"
    /\ { SeedWorkOrders[i].progress : i \in DOMAIN SeedWorkOrders }
         = { workOrders[i].progress : i \in DOMAIN SeedWorkOrders }

IsTenants   == req.method = "GET" /\ req.path = "/api/tenant"
IsTenantGet == req.method = "GET" /\ req.path = "/api/tenant/$tenantId"
IsVerify    == req.method = "GET" /\ req.path = "/api/verify-identity"

TenantPhones == { tenants[i].phone : i \in DOMAIN tenants }

\* What C15 says of the answer to GET /api/tenant?phone=p.
TenantByPhoneContract(p) ==
    IF p \in TenantPhones
    THEN /\ resp.status = 200
         /\ resp.body \in Range(tenants)
         /\ resp.body.phone = p
    ELSE resp = [status |-> 404, body |-> [error |-> "Tenant not found"]]

\* C15 as stated: for every phone p, GET /api/tenant?phone=p answers 404
\* {error: "Tenant not found"} when p is the phone of no tenant, and 200 with
\* one tenant object whose phone is p when p is some tenant's phone.
C15_Original ==
    (IsTenants /\ req.phone.t = "string") => TenantByPhoneContract(req.phone.v)

\* C15 as amended: the same for every non-empty phone p.
C15_TenantByPhone ==
    (IsTenants /\ req.phone.t = "string" /\ req.phone.v # "")
    => TenantByPhoneContract(req.phone.v)

\* A phone one digit short of a tenant's phone was answered 404.
C15_Witness ==
    /\ IsTenants /\ req.phone = JStr("415555100")
    /\ resp.status = 404

\* C16: for every id of a tenant in the answer to GET /api/tenant,
\* GET /api/tenant/<id> answers 200 with the tenant of the list whose id is
\* exactly <id>; for an id no tenant carries it answers 404
\* {error: "Tenant not found"}.
C16_TenantRoundTrip ==
    IsTenantGet
    => LET listed == GetTenants(tenants, JNull).body
       IN  IF req.tenantId \in Ids(listed)
           THEN /\ resp.status = 200
                /\ resp.body.id = req.tenantId
                /\ resp.body \in Range(listed)
           ELSE resp = [status |-> 404, body |-> [error |-> "Tenant not found"]]

\* The last tenant of the list was fetched by its id.
C16_Witness ==
    /\ IsTenantGet /\ resp.status = 200
    /\ req.tenantId = TENANTS[Len(TENANTS)].id
    /\ resp.body = TENANTS[Len(TENANTS)]

\* C17: without a phone parameter GET /api/tenant answers 200 with the whole
\* dataset as a flat array: every tenant once, in dataset order.
C17_ListAllTenants ==
    (IsTenants /\ req.phone = JNull)
    => /\ resp.status = 200
       /\ resp.body = TENANTS
       /\ \A i, j \in DOMAIN resp.body : resp.body[i] = resp.body[j] => i = j

\* The whole directory was listed after work orders had been created.
C17_Witness ==
    /\ IsTenants /\ req.phone = JNull
    /\ Len(resp.body) = Len(TENANTS)
    /\ Len(workOrders) > Len(SeedWorkOrders)

\* C18: the tenant dataset is never mutated: it starts as the fixed dataset,
\* no step of any handler changes it, and so every tenant read is answered
\* as it would be on the initial dataset, whatever ran before it.
C18_TenantsNeverMutated ==
    /\ tenants = TENANTS
    /\ [][ /\ tenants' = tenants
           /\ (req'.method = "GET" /\ req'.path = "/api/tenant")
                 => resp' = GetTenants(TENANTS, req'.phone)
           /\ (req'.method = "GET" /\ req'.path = "/api/tenant/$tenantId")
                 => resp' = GetTenant(TENANTS, req'.tenantId)
           /\ (req'.method = "GET" /\ req'.path = "/api/verify-identity")
                 => resp' = VerifyIdentity(TENANTS, req'.phone) ]_vars

\* A tenant was looked up by phone after two work orders had been created,
\* and the dataset is the initial one.
C18_Witness ==
    /\ IsTenants /\ req.phone = JStr("4155551001") /\ resp.status = 200
    /\ Len(workOrders) = Len(SeedWorkOrders) + 2
    /\ tenants = TENANTS

\* C19: every answer of GET /api/verify-identity is 200 {result: "verified"},
\* given exactly when some tenant's phone equals the phone parameter, or a
\* 404; a request without a phone parameter is no exception.
C19_VerifiedOr404 ==
    IsVerify
    => /\ \/ resp = [status |-> 200, body |-> [result |-> "verified"]]
          \/ resp.status = 404
       /\ (resp.status = 200)
             <=> (req.phone.t = "string" /\ req.phone.v \in TenantPhones)

\* C20: a created work order is a snapshot of the input: the stored record is
\* the returned one, its tenantName, tenantAddress, tenantPhone,
\* tenantUnitNumber and description are the input's values verbatim,
\* tenantUnitNumber is absent when the input has none, and the create is
\* accepted whether or not its tenantPhone belongs to a tenant.
C20_Snapshot ==
    (IsCreate /\ MeetsCreateContract(req.body))
    => /\ resp.status = 201
       /\ workOrders[Len(workOrders)] = resp.body
       /\ InputOf(resp.body) = InputOfBody(req.body)
       /\ DOMAIN resp.body
            = (DOMAIN req.body.v \cap ContractKeys)
              \cup {"id", "progress", "createdAt"}
       /\ \A k \in DOMAIN req.body.v \cap ContractKeys :
              resp.body[k] = req.body.v[k].v

\* A create without unit number, for a phone no tenant has, was accepted.
C20_Witness ==
    /\ IsCreate /\ resp.status = 201
    /\ req.body.v["tenantPhone"].v \notin TenantPhones
    /\ "tenantUnitNumber" \notin DOMAIN req.body.v
    /\ "tenantUnitNumber" \notin DOMAIN workOrders[Len(workOrders)]

IsSearch == req.method = "RENDER" /\ req.path = "/tenants"

\* The tenants of the fetched list selected by a query, by name (lowercased)
\* or by phone (as typed).
Selected(query) ==
    { i \in DOMAIN tenants :
        \/ Includes(ToLowerCase(tenants[i].name), ToLowerCase(query))
        \/ Includes(tenants[i].phone, query) }

\* The filtered list holds exactly the tenants at the positions `keep`, in
\* the order of the fetched list.
ShowsExactly(keep) ==
    /\ Len(resp.body) = Cardinality(keep)
    /\ \A i \in keep : \E k \in DOMAIN resp.body : resp.body[k] = tenants[i]
    /\ \A k, l \in DOMAIN resp.body :
           k < l => \E i, j \in keep : /\ i < j
                                       /\ resp.body[k] = tenants[i]
                                       /\ resp.body[l] = tenants[j]

\* C21 as stated: for every query, white space at its ends included, the
\* search shows exactly the tenants whose lowercased name contains the
\* lowercased query or whose phone contains the query as typed; the empty
\* query shows all tenants.
C21_Original ==
    IsSearch
    => IF req.search = "" THEN resp.body = tenants
       ELSE ShowsExactly(Selected(req.search))

\* C21 as amended: the same with the query trimmed of white space at both
\* ends first; a query that is empty after trimming shows all tenants.
C21_SearchTrimmed ==
    IsSearch
    => IF Trim(req.search) = "" THEN resp.body = tenants
       ELSE ShowsExactly(Selected(Trim(req.search)))

\* A query with white space after it found tenants by phone, but not all of
\* them.
C21_Witness ==
    /\ IsSearch /\ req.search = "00 "
    /\ Len(resp.body) > 0 /\ Len(resp.body) < Len(tenants)

\* The requests, by arrival number, that have been answered 201.
Created == { i \in DOMAIN resp : resp[i].status = 201 }

\* C22: however creates in flight together are interleaved, no append is
\* lost or duplicated: every request answered 201 has its record in the
\* collection exactly once, no two requests share a record, and the
\* collection holds the initial records plus one per 201 response.
C22_NoLostAppend ==
    /\ \A i \in Created : Occurrences(workOrders, resp[i].body) = 1
    /\ \A i, j \in Created : i # j => resp[i].body.id # resp[j].body.id
    /\ Len(workOrders) = Len(SeedWorkOrders) + Cardinality(Created)
    /\ SubSeq(workOrders, 1, Len(SeedWorkOrders)) = SeedWorkOrders

\* The second and third request to arrive were answered 201, the third
\* before the second, while the first was still suspended at request.json().
C22_Witness ==
    /\ Len(req) = 3 /\ req[1].pc = "json"
    /\ Created = {2, 3}
    /\ workOrders[Len(SeedWorkOrders) + 1] = resp[3].body
    /\ workOrders[Len(SeedWorkOrders) + 2] = resp[2].body

\* The records a 201 response can carry in the model.
CreatableRecords ==
    { Spread(InputOfBody(b),
             [id |-> UUIDPool[i], progress |-> "new",
              createdAt |-> ToISOString(t)]) :
        b \in AcceptableBodies, i \in 1..NumUUIDs, t \in ClockReadings }

\* The request being answered is a create answered 201 with record r.
Returned(r) == IsCreate /\ resp = [status |-> 201, body |-> r]

\* r is in the collection, once.
Stored(r) == Occurrences(workOrders, r) = 1

\* r is stored, and the request being answered, if it reads r's id, the
\* whole list or the list of r's phone, is answered with r.
ReadsReturn(r) ==
    /\ Stored(r)
    /\ (IsGetById /\ req.workOrderId = r.id)
          => resp = [status |-> 200, body |-> r]
    /\ (IsList /\ req.phone \in {JNull, JStr(r.tenantPhone)})
          => /\ resp.status = 200
             /\ Occurrences(resp.body, r) = 1

\* C23: read your writes: a create answered 201 with record r leaves r
\* stored, and from every state in which r is stored each further step keeps
\* it stored and, when it is a lookup of r.id, is answered with r, field for
\* field, and when it is an unfiltered list or the list for r's phone, is
\* answered with a list holding r.  So once r was returned, every later read
\* returns it.
C23_ReadYourWrites ==
    [][ \A r \in CreatableRecords :
            /\ Returned(r)' => Stored(r)'
            /\ Stored(r) => ReadsReturn(r)' ]_vars

\* A record created earlier, and no longer the newest, was fetched by its id.
C23_Witness ==
    /\ IsGetById /\ resp.status = 200
    /\ Len(workOrders) = Len(SeedWorkOrders) + 2
    /\ resp.body = workOrders[Len(SeedWorkOrders) + 1]
    /\ resp.body \in CreatableRecords

\* The step answers a read of the work-order collection.
IsRead == IsList \/ IsGetById

\* C24: reads do not disturb the store: a step that answers a list (with or
\* without phone) or a lookup by id leaves the collection as it was, in
\* content and in insertion order, and the list it answers is the sorted
\* copy of what the collection holds, so that reads with no create between
\* them are answered alike.
C24_ReadsLeaveStore ==
    [][ IsRead' => /\ workOrders' = workOrders
                   /\ IsList' =>
                        /\ NewestFirst(resp'.body)
                        /\ \A r \in Range(workOrders) :
                              Occurrences(resp'.body, r)
                                = IF req'.phone.t = "string"
                                     /\ req'.phone.v # ""
                                     /\ r.tenantPhone # req'.phone.v
                                  THEN 0 ELSE 1
                        /\ Range(resp'.body) \subseteq Range(workOrders)
                   /\ IsGetById' =>
                        \A r \in Range(workOrders) :
                           r.id = req'.workOrderId
                              => resp' = [status |-> 200, body |-> r] ]_vars

\* A list was answered newest first while the collection kept its insertion
\* order, in which the newest record is not the last.
C24_Witness ==
    /\ IsList /\ req.phone = JNull
    /\ Len(workOrders) = Len(SeedWorkOrders) + 2
    /\ resp.body[1] # workOrders[Len(workOrders)]
    /\ SubSeq(workOrders, 1, Len(SeedWorkOrders)) = SeedWorkOrders

\* Position of the record with id x in a list.
PositionOf(list, x) == CHOOSE k \in DOMAIN list : list[k].id = x

\* C25: ties in createdAt fall back to insertion order: two stored records
\* with equal createdAt that both are in the answer of a list, filtered or
\* not, are in it in the order in which they were inserted.
C25_TiesInInsertionOrder ==
    IsList
    => \A i, j \in DOMAIN workOrders :
          ( /\ i < j
            /\ workOrders[i].createdAt = workOrders[j].createdAt
            /\ workOrders[i] \in Range(resp.body)
            /\ workOrders[j] \in Range(resp.body) )
          => PositionOf(resp.body, workOrders[i].id)
               < PositionOf(resp.body, workOrders[j].id)

\* Two records were created with the createdAt of the newest seed record,
\* and the list holds the three of them.
C25_Witness ==
    /\ IsList /\ req.phone = JNull
    /\ Len(workOrders) = Len(SeedWorkOrders) + 2
    /\ \A i \in DOMAIN workOrders :
          i >= Len(SeedWorkOrders)
             => workOrders[i].createdAt
                  = SeedWorkOrders[Len(SeedWorkOrders)].createdAt
    /\ resp.body[1] = SeedWorkOrders[Len(SeedWorkOrders)]

MalformedInput ==
    resp = [status |-> 400, body |-> [error |-> "Invalid JSON body"]]
ValidationFailed ==
    /\ resp.status = 400
    /\ resp.body.error = "Validation failed"
    /\ "issues" \in DOMAIN resp.body

\* C26: a create is answered MalformedInput exactly when its body is not
\* JSON, and ValidationFailed exactly when its body is JSON that does not
\* meet the contract: null, a number, a string, an array and an object with
\* a wrong field are all ValidationFailed.
C26_MalformedOnlyUnparsable ==
    IsCreate
    => /\ MalformedInput <=> req.body = Unparsable
       /\ (resp.status # 201 /\ ~MalformedInput)
             <=> (ParsesButInvalid(req.body) /\ ValidationFailed)
       /\ req.body \in NonObjectBodies => ValidationFailed

\* The JSON value null was sent as the body and reported as ValidationFailed.
C26_Witness ==
    /\ IsCreate /\ req.body = JNull
    /\ ValidationFailed
    /\ resp.body.issues[1].path = <<>>

\* C27: fields the server assigns cannot be set by the payload: an
\* acceptable body that also carries id, createdAt or another key the schema
\* does not declare is answered 201; the record's id is one the generator
\* just issued and no record had before, its createdAt is a reading of the
\* server clock, and the record has no key beyond the schema's, id, progress
\* and createdAt.
C27_ServerAssigned ==
    [][ ( /\ req'.method = "POST"
          /\ MeetsCreateContract(req'.body)
          /\ DOMAIN req'.body.v \ ContractKeys # {} )
        => /\ resp'.status = 201
           /\ workOrders' = Append(workOrders, resp'.body)
           /\ resp'.body.id \in uuids' \ uuids
           /\ resp'.body.id \notin Ids(workOrders)
           /\ \E t \in ClockReadings : resp'.body.createdAt = ToISOString(t)
           /\ "id" \in DOMAIN req'.body.v
                 => resp'.body.id # req'.body.v["id"].v
           /\ DOMAIN resp'.body \subseteq
                 ContractKeys \cup {"id", "progress", "createdAt"} ]_vars

\* A body carrying the id of a seed record and a createdAt of 1999 was
\* accepted.
C27_Witness ==
    /\ IsCreate /\ resp.status = 201
    /\ {"id", "createdAt"} \subseteq DOMAIN req.body.v
    /\ req.body.v["id"].v = SeedWorkOrders[1].id
    /\ Occurrences(workOrders, resp.body) = 1

\* C28: a phone parameter that is present but empty counts as absent:
\* GET /api/workorder?phone= is answered with all work orders and
\* GET /api/tenant?phone= with the full tenant list and status 200.
C28_EmptyPhoneIsAbsent ==
    /\ (IsList /\ req.phone = JStr(""))
          => /\ resp.status = 200
             /\ Len(resp.body) = Len(workOrders)
             /\ Range(resp.body) = Range(workOrders)
    /\ (IsTenants /\ req.phone = JStr(""))
          => resp = [status |-> 200, body |-> tenants]

\* GET /api/workorder?phone= was answered with twelve work orders.
C28_Witness ==
    /\ IsList /\ req.phone = JStr("")
    /\ Len(resp.body) = Len(SeedWorkOrders) + 2

Reverse(list) == [i \in DOMAIN list |-> list[Len(list) + 1 - i]]

DistinctCreatedAt ==
    \A i, j \in DOMAIN workOrders :
       workOrders[i].createdAt = workOrders[j].createdAt => i = j

StrangerPhones ==
    ({ p.v : p \in { q \in PhoneParams : q.t = "string" } }
        \cup { SubSeq(p, 1, Len(p) - 1) : p \in TenantPhones }
        \cup { p \o "0" : p \in TenantPhones })
    \ (TenantPhones \cup {""})

\* C30: verify-identity reveals only existence: the answers for any two
\* phones of tenants are the same, 200 {result: "verified"}, a body with no
\* field of the tenant; the answers for any two non-empty phones of no
\* tenant are the same, 404 {error: "Tenant not found"}; and the answer
\* observed for a non-empty phone is one of the two.
C30_OnlyExistence ==
    /\ \A p, q \in TenantPhones :
          /\ VerifyIdentity(tenants, JStr(p)) = VerifyIdentity(tenants, JStr(q))
          /\ VerifyIdentity(tenants, JStr(p))
               = [status |-> 200, body |-> [result |-> "verified"]]
    /\ \A p, q \in StrangerPhones :
          /\ VerifyIdentity(tenants, JStr(p)) = VerifyIdentity(tenants, JStr(q))
          /\ VerifyIdentity(tenants, JStr(p))
               = [status |-> 404, body |-> [error |-> "Tenant not found"]]
    /\ (IsVerify /\ req.phone.t = "string" /\ req.phone.v # "")
          => /\ DOMAIN resp.body \cap
                   {"id", "name", "phone", "address", "unitNumber"} = {}
             /\ resp = IF req.phone.v \in TenantPhones
                       THEN [status |-> 200, body |-> [result |-> "verified"]]
                       ELSE [status |-> 404,
                             body |-> [error |-> "Tenant not found"]]

\* A tenant's phone was verified.
C30_Witness ==
    /\ IsVerify /\ req.phone.t = "string"
    /\ req.phone.v \in TenantPhones
    /\ resp.status = 200
    /\ Cardinality(TenantPhones) > 1 /\ Cardinality(StrangerPhones) > 1

====
